---- MODULE Spec2Model ----
(***************************************************************************)
(* pipdeptree: the dependency graph (src/src/package_dag.py), its node     *)
(* types (src/src/package.py, dist_package.py, req_package.py) and the     *)
(* diagnostics and tree renderers of src/pipdeptree.py.                    *)
(*                                                                         *)
(* Python values are modelled as follows.                                  *)
(*  - A dict is an insertion-ordered sequence of entries [k, v]; setting   *)
(*    an existing key keeps its position (DictSet).  Package objects hash  *)
(*    by identity; the model compares the records that describe them.      *)
(*  - PackageDAG objects live in a heap (dags); an operation reads its     *)
(*    receiver from the heap and returns the heap it leaves behind, so     *)
(*    that writing to the receiver is expressible.                         *)
(*  - None is the record None; an optional set is Absent or Given(S).      *)
(*  - A raised exception is the record Raise(exc) in place of a result.    *)
(*  - The objects the nodes wrap are records with a field kind, which says *)
(*    what the object offers: Package.__init__ reads it with obj.get(name), *)
(*    Package.__getattr__ with getattr(obj, name).  A pkg_resources object *)
(*    has the attributes and no get, a mapping has get and no attributes.  *)
(***************************************************************************)
EXTENDS Naturals, Sequences, FiniteSets

VARIABLES
    pkgs,    \* the installed distributions handed to PackageDAG.from_pkgs
    dags,    \* heap of PackageDAG / ReversedPackageDAG objects
    built,   \* history: each heap object as its constructor left it
    calls,   \* history: the transformation calls made so far
    tree,    \* the graph the pipeline currently holds (an address in dags)
    raised,  \* "" or the name of the exception that ended the run
    out,     \* the value returned by the last diagnostic or renderer
    args,    \* main(): the parsed command line, NoArgs outside main()
    pc,      \* main(): the step that comes next
    return_code  \* main(): its local return_code

vars == <<pkgs, dags, built, calls, tree, raised, out, args, pc, return_code>>

\* what only main() writes
mainvars == <<args, pc, return_code>>

(***************************************************************************)
(* Bounds of the model.                                                    *)
(***************************************************************************)
MaxEdges == 3      \* requirement specifiers declared in the whole inventory
MaxOps == 2        \* transformation calls in one run

(***************************************************************************)
(* Python values                                                           *)
(***************************************************************************)
None == [cls |-> "None"]

Absent == [present |-> FALSE, members |-> {}]

Given(S) == [present |-> TRUE, members |-> S]

Raise(exc) == [cls |-> "raise", exc |-> exc]

IsRaise(x) == x.cls = "raise"

\* a reference to the heap object at address a
Ref(a) == [cls |-> "ref", addr |-> a]

\* str.lower() on the names the model uses
Lower(s) ==
    CASE s = "A" -> "a"
      [] s = "B" -> "b"
      [] s = "C" -> "c"
      [] s = "D" -> "d"
      [] OTHER -> s

\* the code point that orders one-letter strings under Python's <
Ord(s) ==
    CASE s = "A" -> 65
      [] s = "B" -> 66
      [] s = "C" -> 67
      [] s = "D" -> 68
      [] s = "a" -> 97
      [] s = "b" -> 98
      [] s = "c" -> 99
      [] s = "d" -> 100

\* the elements of a sequence
Range(s) == {s[i] : i \in DOMAIN s}

\* chain.from_iterable over the values of a dict
RECURSIVE flatten(_)
flatten(ss) ==
    IF ss = <<>> THEN <<>> ELSE Head(ss) \o flatten(Tail(ss))

(***************************************************************************)
(* dict                                                                    *)
(***************************************************************************)
DictKeys(m) == [i \in DOMAIN m |-> m[i].k]

DictValues(m) == [i \in DOMAIN m |-> m[i].v]

DictHas(m, n) == \E i \in DOMAIN m : m[i].k = n

DictPos(m, n) == CHOOSE i \in DOMAIN m : m[i].k = n

DictGet(m, n) == m[DictPos(m, n)].v

\* m[n] = val
DictSet(m, n, val) ==
    IF DictHas(m, n)
    THEN [m EXCEPT ![DictPos(m, n)].v = val]
    ELSE Append(m, [k |-> n, v |-> val])

\* m[n].append(x) on a defaultdict(list)
DictAppend(m, n, x) ==
    IF DictHas(m, n)
    THEN [m EXCEPT ![DictPos(m, n)].v = Append(@, x)]
    ELSE Append(m, [k |-> n, v |-> <<x>>])

(***************************************************************************)
(* Package, DistPackage, ReqPackage                                        *)
(***************************************************************************)
\* what a wrapped object can be: a pkg_resources.Distribution or Requirement
\* (attributes, no get), a mapping such as a dict (get, no attributes), or
\* an object that has both
Kinds == {"pkg_resources", "mapping", "both"}

\* obj.get(name) exists (Package.__init__, lines 29-30)
HasGet(obj) == obj.kind \in {"mapping", "both"}

\* getattr(obj, name) finds the attributes of a distribution or requirement
\* (Package.__getattr__, line 50)
HasAttrs(obj) == obj.kind \in {"pkg_resources", "both"}

\* Package.__getattr__: the attribute of the wrapped object, or the
\* AttributeError of getattr
Package_getattr(obj, name) ==
    IF HasAttrs(obj) THEN obj[name] ELSE Raise("AttributeError")

\* DistPackage(obj, req): Package.__init__ reads key and project_name with
\* obj.get, which raises AttributeError on an object that has no get;
\* version is what Package.__getattr__ finds for it.  kind and as_req
\* describe the wrapped object self._obj.
DistPackage(obj, req) ==
    IF ~HasGet(obj)
    THEN Raise("AttributeError")
    ELSE [cls |-> "DistPackage", key |-> obj.key,
          project_name |-> obj.project_name,
          version |-> Package_getattr(obj, "version"), req |-> req,
          kind |-> obj.kind, as_req |-> obj.as_req]

\* ReqPackage(obj, dist): obj is the requirement (key, project_name, specs);
\* Package.__init__ raises AttributeError when it has no get
ReqPackage(obj, dist) ==
    IF ~HasGet(obj)
    THEN Raise("AttributeError")
    ELSE [cls |-> "ReqPackage", key |-> obj.key,
          project_name |-> obj.project_name,
          specs |-> Package_getattr(obj, "specs"), dist |-> dist,
          kind |-> obj.kind]

\* self._obj.as_requirement(): project_name==version, as an object of the
\* kind the distribution hands out
Distribution_as_requirement(d) ==
    [kind |-> d.as_req, key |-> d.key, project_name |-> d.project_name,
     specs |-> <<[op |-> "==", ver |-> d.version]>>]

\* DistPackage.as_requirement: a mapping has no as_requirement, and
\* ReqPackage raises on a requirement that has no get
as_requirement(self) ==
    IF ~HasAttrs(self)
    THEN Raise("AttributeError")
    ELSE ReqPackage(Distribution_as_requirement(self), self)

\* DistPackage.as_parent_of
as_parent_of(self, req) ==
    IF req = None /\ self.req = None
    THEN self
    ELSE DistPackage(self, req)

(***************************************************************************)
(* PackageDAG                                                              *)
(***************************************************************************)
\* the dict comprehension {p.key: p for p in ...}: the last entry of a key wins
IndexOf(m) ==
    [key \in {m[i].k.key : i \in DOMAIN m} |->
        LET last == CHOOSE i \in DOMAIN m :
                        /\ m[i].k.key = key
                        /\ \A j \in DOMAIN m : m[j].k.key = key => j <= i
        IN  m[last].k]

\* PackageDAG.__init__ (and ReversedPackageDAG's, which inherits it):
\* p.key on a root that is None raises AttributeError
PackageDAG_init(cls, m) ==
    IF \E i \in DOMAIN m : m[i].k = None
    THEN Raise("AttributeError")
    ELSE [cls |-> cls, obj |-> m, index |-> IndexOf(m)]

\* PackageDAG.from_pkgs.  Line 39 wraps every distribution, which raises
\* AttributeError on one that has no get; line 41 calls p.requires(), reads
\* r.key and wraps r, each of which raises AttributeError on an object that
\* lacks what is read.
from_pkgs(ps) ==
    LET dists == [i \in DOMAIN ps |-> DistPackage(ps[i], None)]
        idx == IndexOf([i \in DOMAIN ps |-> [k |-> dists[i], v |-> <<>>]])
        get(key) == IF key \in DOMAIN idx THEN idx[key] ELSE None
        m == [i \in DOMAIN ps |->
                [k |-> dists[i],
                 v |-> [j \in DOMAIN ps[i].requires |->
                          ReqPackage(ps[i].requires[j],
                                     get(ps[i].requires[j].key))]]]
    IN  IF \E i \in DOMAIN ps : IsRaise(dists[i])
        THEN Raise("AttributeError")
        ELSE IF \E i \in DOMAIN ps :
                   \/ ~HasAttrs(ps[i])
                   \/ \E j \in DOMAIN ps[i].requires :
                         \/ ~HasAttrs(ps[i].requires[j])
                         \/ ~HasGet(ps[i].requires[j])
        THEN Raise("AttributeError")
        ELSE PackageDAG_init("PackageDAG", m)

\* PackageDAG.get_node_as_parent
get_node_as_parent(self, node_key) ==
    IF node_key \in DOMAIN self.index THEN self.index[node_key] ELSE None

\* PackageDAG.get_children
get_children(self, node_key) ==
    LET node == get_node_as_parent(self, node_key)
    IN  IF node # None THEN DictGet(self.obj, node) ELSE <<>>

\* the set of keys of the roots of a dict
RootKeySet(m) == {m[i].k.key : i \in DOMAIN m}

\* the set of keys of the edge targets: set(r.key for r in flatten(values))
ChildKeys(m) == {r.key : r \in Range(flatten(DictValues(m)))}

\* a fresh object on the heap; an exception leaves the heap as it is
New(heap, obj) ==
    IF IsRaise(obj)
    THEN [heap |-> heap, ret |-> obj]
    ELSE [heap |-> Append(heap, obj), ret |-> Ref(Len(heap) + 1)]

(***************************************************************************)
(* PackageDAG.filter                                                       *)
(***************************************************************************)
\* the number of requirement edges of a dict
EdgeCount(m) == Len(flatten(DictValues(m)))

\* Pops the traversal is allowed before it is declared not to terminate:
\* every pop answers one push, a root is pushed once as a seed and a child
\* once per edge that reaches it while it is unseen.
FilterFuel(m) == Len(m) + EdgeCount(m)

\* FilterPush without the test of line 134: a child goes on the stack even
\* when it has been visited
FilterPushSeenAgain(self, cldn, seen) ==
    LET known(c) == get_node_as_parent(self, c.key) # None
        cs == SelectSeq(cldn, known)
    IN  [i \in DOMAIN cs |-> get_node_as_parent(self, cs[i].key)]

\* FilterPush without the descent of lines 133-137: only the seeds are
\* visited
FilterPushNoDescent(self, cldn, seen) ==
    SubSeq([i \in DOMAIN cldn |-> get_node_as_parent(self, cldn[i].key)], 1, 0)

\* the children of one visited node that go on the stack (lines 133-142)
FilterPush(self, cldn, seen) ==
    LET unseen(c) == c.key \notin seen /\ get_node_as_parent(self, c.key) # None
        cs == SelectSeq(cldn, unseen)
    IN  [i \in DOMAIN cs |-> get_node_as_parent(self, cs[i].key)]

\* FilterVisit without the test of line 130: the visited node keeps the
\* edges to excluded keys
FilterVisitKeepsExcluded(self, exclude, st) ==
    LET n == st.stack[Len(st.stack)]
        cldn == DictGet(self.obj, n)
        seen == st.seen \cup {n.key}
    IN  [stack |-> SubSeq(st.stack, 1, Len(st.stack) - 1)
                      \o FilterPush(self, cldn, seen),
         m |-> DictSet(st.m, n, cldn),
         seen |-> seen,
         fuel |-> st.fuel - 1]

\* one pass of `while True` with a non-empty stack (lines 129-142)
FilterVisit(self, exclude, st) ==
    LET n == st.stack[Len(st.stack)]
        kept(c) == c.key \notin exclude
        cldn == SelectSeq(DictGet(self.obj, n), kept)
        seen == st.seen \cup {n.key}
    IN  [stack |-> SubSeq(st.stack, 1, Len(st.stack) - 1)
                      \o FilterPush(self, cldn, seen),
         m |-> DictSet(st.m, n, cldn),
         seen |-> seen,
         fuel |-> st.fuel - 1]

\* the `while True` loop (lines 127-144), cut off when the fuel is spent
RECURSIVE FilterDrain(_, _, _)
FilterDrain(self, exclude, st) ==
    IF Len(st.stack) = 0 \/ st.fuel = 0
    THEN st
    ELSE FilterDrain(self, exclude, FilterVisit(self, exclude, st))

\* the `for node in self._obj.keys()` loop (lines 122-144) from root i on
RECURSIVE FilterLoop(_, _, _, _, _)
FilterLoop(self, include, exclude, i, st) ==
    IF i > Len(self.obj) \/ Len(st.stack) > 0
    THEN st
    ELSE LET node == self.obj[i].k
         IN  IF node.key \in exclude
             THEN FilterLoop(self, include, exclude, i + 1, st)
             ELSE LET seeded ==
                          IF ~include.present \/ node.key \in include.members
                          THEN [st EXCEPT !.stack = Append(@, node)]
                          ELSE st
                  IN  FilterLoop(self, include, exclude, i + 1,
                                 FilterDrain(self, exclude, seeded))

\* lines 105-110: the sets as the traversal compares them
FilterInclude(include) ==
    IF include.present /\ include.members # {}
    THEN Given({Lower(s) : s \in include.members})
    ELSE include

FilterExclude(exclude) ==
    IF exclude.present /\ exclude.members # {}
    THEN {Lower(s) : s \in exclude.members}
    ELSE {}

\* filter without the short circuit of lines 97-98: the traversal runs even
\* when both sets are None
filterAlwaysTraverses(heap, a, include, exclude) ==
    LET self == heap[a]
        inc == FilterInclude(include)
        exc == FilterExclude(exclude)
        st == FilterLoop(self, inc, exc, 1,
                         [stack |-> <<>>, m |-> <<>>, seen |-> {},
                          fuel |-> FilterFuel(self.obj)])
    IN  IF /\ inc.present /\ inc.members # {} /\ exc # {}
           /\ inc.members \cap exc # {}
        THEN [heap |-> heap, ret |-> Raise("AssertionError")]
        ELSE IF Len(st.stack) > 0
        THEN [heap |-> heap, ret |-> Raise("NoTermination")]
        ELSE New(heap, PackageDAG_init(self.cls, st.m))

\* filter that asserts on the sets as given, before they are lower-cased
filterAssertsUnfolded(heap, a, include, exclude) ==
    LET self == heap[a]
        inc == FilterInclude(include)
        exc == FilterExclude(exclude)
        st == FilterLoop(self, inc, exc, 1,
                         [stack |-> <<>>, m |-> <<>>, seen |-> {},
                          fuel |-> FilterFuel(self.obj)])
    IN  IF ~include.present /\ ~exclude.present
        THEN [heap |-> heap, ret |-> Ref(a)]
        ELSE IF include.members \cap exclude.members # {}
        THEN [heap |-> heap, ret |-> Raise("AssertionError")]
        ELSE IF Len(st.stack) > 0
        THEN [heap |-> heap, ret |-> Raise("NoTermination")]
        ELSE New(heap, PackageDAG_init(self.cls, st.m))

\* PackageDAG.filter
filter(heap, a, include, exclude) ==
    LET self == heap[a]
        inc == FilterInclude(include)
        exc == FilterExclude(exclude)
        st == FilterLoop(self, inc, exc, 1,
                         [stack |-> <<>>, m |-> <<>>, seen |-> {},
                          fuel |-> FilterFuel(self.obj)])
    IN  IF ~include.present /\ ~exclude.present
        THEN [heap |-> heap, ret |-> Ref(a)]
        ELSE IF /\ inc.present /\ inc.members # {} /\ exc # {}
                /\ inc.members \cap exc # {}
        THEN [heap |-> heap, ret |-> Raise("AssertionError")]
        ELSE IF Len(st.stack) > 0
        THEN [heap |-> heap, ret |-> Raise("NoTermination")]
        ELSE New(heap, PackageDAG_init(self.cls, st.m))

(***************************************************************************)
(* PackageDAG.reverse and ReversedPackageDAG.reverse                       *)
(***************************************************************************)
\* [p for p in m.keys() if p.key == v.key][0], or missing on IndexError
FirstWithKey(m, key) ==
    IF \E i \in DOMAIN m : m[i].k.key = key
    THEN m[CHOOSE i \in DOMAIN m :
               /\ m[i].k.key = key
               /\ \A j \in DOMAIN m : m[j].k.key = key => i <= j].k
    ELSE None

\* PackageDAG.reverse, lines 170-178: the edges of root k from edge j on
RECURSIVE ReverseEdges(_, _, _, _)
ReverseEdges(m, k, vs, j) ==
    IF j > Len(vs)
    THEN m
    ELSE LET v == vs[j]
             found == FirstWithKey(m, v.key)
             node == IF found # None THEN found ELSE v
         IN  ReverseEdges(DictAppend(m, node, as_parent_of(k, v)), k, vs, j + 1)

\* m[k.as_requirement()] = [] (line 180): st is the dict m and the exception
\* raised so far, if any; as_requirement may raise AttributeError
ReverseAddRoot(st, k) ==
    LET root == as_requirement(k)
    IN  IF IsRaise(root)
        THEN [st EXCEPT !.exc = root.exc]
        ELSE [st EXCEPT !.m = DictSet(@, root, <<>>)]

\* ReverseRoots without the test of line 179: every root of the forward
\* graph is added as a root of its own, also when an edge has made one
RECURSIVE ReverseRootsAddsEveryRoot(_, _, _, _)
ReverseRootsAddsEveryRoot(obj, child_keys, st, i) ==
    IF i > Len(obj) \/ st.exc # ""
    THEN st
    ELSE LET k == obj[i].k
             st1 == [st EXCEPT !.m = ReverseEdges(@, k, obj[i].v, 1)]
         IN  ReverseRootsAddsEveryRoot(obj, child_keys,
                                       ReverseAddRoot(st1, k), i + 1)

\* PackageDAG.reverse, lines 169-180: the roots from root i on
RECURSIVE ReverseRoots(_, _, _, _)
ReverseRoots(obj, child_keys, st, i) ==
    IF i > Len(obj) \/ st.exc # ""
    THEN st
    ELSE LET k == obj[i].k
             st1 == [st EXCEPT !.m = ReverseEdges(@, k, obj[i].v, 1)]
             st2 == IF k.key \notin child_keys
                    THEN ReverseAddRoot(st1, k)
                    ELSE st1
         IN  ReverseRoots(obj, child_keys, st2, i + 1)

\* PackageDAG.reverse
PackageDAG_reverse(heap, a) ==
    LET self == heap[a]
        st == ReverseRoots(self.obj, ChildKeys(self.obj),
                           [m |-> <<>>, exc |-> ""], 1)
    IN  New(heap, IF st.exc # ""
                  THEN Raise(st.exc)
                  ELSE PackageDAG_init("ReversedPackageDAG", st.m))

\* ReversedPackageDAG.reverse, lines 227-232: the dependents of root k from
\* dependent j on.  st is the dict m and the exception raised so far, if
\* any: p.key on a root that is None raises AttributeError (line 229).
RECURSIVE UnreverseEdges(_, _, _, _)
UnreverseEdges(st, k, vs, j) ==
    IF j > Len(vs) \/ st.exc # ""
    THEN st
    ELSE IF \E i \in DOMAIN st.m : st.m[i].k = None
    THEN [st EXCEPT !.exc = "AttributeError"]
    ELSE LET v == vs[j]
             found == FirstWithKey(st.m, v.key)
             node == IF found # None THEN found ELSE as_parent_of(v, None)
         IN  UnreverseEdges([st EXCEPT !.m = DictAppend(@, node, k)],
                            k, vs, j + 1)

\* ReversedPackageDAG.reverse, lines 226-234: the roots from root i on
RECURSIVE UnreverseRoots(_, _, _, _)
UnreverseRoots(obj, child_keys, st, i) ==
    IF i > Len(obj) \/ st.exc # ""
    THEN st
    ELSE LET k == obj[i].k
             st1 == UnreverseEdges(st, k, obj[i].v, 1)
             st2 == IF st1.exc = "" /\ k.key \notin child_keys
                    THEN [st1 EXCEPT !.m = DictSet(@, k.dist, <<>>)]
                    ELSE st1
         IN  UnreverseRoots(obj, child_keys, st2, i + 1)

\* ReversedPackageDAG.reverse
ReversedPackageDAG_reverse(heap, a) ==
    LET self == heap[a]
        st == UnreverseRoots(self.obj, ChildKeys(self.obj),
                             [m |-> <<>>, exc |-> ""], 1)
    IN  New(heap, IF st.exc # ""
                  THEN Raise(st.exc)
                  ELSE PackageDAG_init("PackageDAG", st.m))

\* tree.reverse(): the method of the receiver's class
reverse(heap, a) ==
    IF heap[a].cls = "ReversedPackageDAG"
    THEN ReversedPackageDAG_reverse(heap, a)
    ELSE PackageDAG_reverse(heap, a)

(***************************************************************************)
(* PackageDAG.sort and sorted_tree                                         *)
(***************************************************************************)
\* InsertSorted that puts x before the elements with an equal key, as a sort
\* that is not stable may
RECURSIVE InsertSortedBeforeEquals(_, _)
InsertSortedBeforeEquals(sorted, x) ==
    IF sorted = <<>>
    THEN <<x>>
    ELSE IF Ord(x.key) <= Ord(Head(sorted).key)
    THEN <<x>> \o sorted
    ELSE <<Head(sorted)>> \o InsertSortedBeforeEquals(Tail(sorted), x)

\* one step of a stable sort: x goes after every element that is not greater
RECURSIVE InsertSorted(_, _)
InsertSorted(sorted, x) ==
    IF sorted = <<>>
    THEN <<x>>
    ELSE IF Ord(x.key) < Ord(Head(sorted).key)
    THEN <<x>> \o sorted
    ELSE <<Head(sorted)>> \o InsertSorted(Tail(sorted), x)

\* sorted(...) over items decorated with their sort key [key, val]; stable
RECURSIVE SortedByKey(_)
SortedByKey(xs) ==
    IF xs = <<>>
    THEN <<>>
    ELSE InsertSorted(SortedByKey(SubSeq(xs, 1, Len(xs) - 1)), xs[Len(xs)])

\* sorted(v, key=attrgetter("key"))
SortedEdges(v) ==
    LET s == SortedByKey([j \in DOMAIN v |-> [key |-> v[j].key, val |-> v[j]]])
    IN  [j \in DOMAIN s |-> s[j].val]

\* sorted_tree
sorted_tree(m) ==
    LET s == SortedByKey([i \in DOMAIN m |->
                 [key |-> m[i].k.key,
                  val |-> [k |-> m[i].k, v |-> SortedEdges(m[i].v)]]])
    IN  [i \in DOMAIN s |-> s[i].val]

\* sort that sorts the receiver's own dict and returns the receiver
sortInPlace(heap, a) ==
    [heap |-> [heap EXCEPT ![a] = PackageDAG_init(heap[a].cls, sorted_tree(heap[a].obj))],
     ret |-> Ref(a)]

\* PackageDAG.sort
sort(heap, a) ==
    New(heap, PackageDAG_init(heap[a].cls, sorted_tree(heap[a].obj)))

(***************************************************************************)
(* ReqPackage: installed version and conflicts (src/src/req_package.py)    *)
(***************************************************************************)
UNKNOWN_VERSION == "?"

\* What import_module(pkg_key) finds, per key: "ImportError" (no such
\* module), "NoVersion" (a module without __version__), or the module's
\* __version__.
\* guess_version
guess_version(pkg_key, default, modules) ==
    IF modules[pkg_key] = "ImportError"
    THEN default
    ELSE IF modules[pkg_key] = "NoVersion"
    THEN default
    ELSE modules[pkg_key]

\* ReqPackage.installed_version
installed_version(self, modules) ==
    IF self.dist = None
    THEN guess_version(self.key, UNKNOWN_VERSION, modules)
    ELSE self.dist.version

\* ReqPackage.is_missing
is_missing(self, modules) == installed_version(self, modules) = UNKNOWN_VERSION

\* ReqPackage.version_spec: the specifiers joined, None when there are none
\* (a requirement of the model has at most one specifier, so the sort of
\* line 41 leaves it as it is)
version_spec(self) ==
    IF self.specs = <<>> THEN None ELSE [cls |-> "str", specs |-> self.specs]

\* the release number that orders the version strings of the model
VersionOrd(v) == CASE v = "1.0" -> 1 [] v = "2.0" -> 2

\* `version in Requirement.parse(name + ver_spec)`: every specifier admits it
SpecifierContains(specs, v) ==
    \A i \in DOMAIN specs :
        CASE specs[i].op = "==" -> VersionOrd(v) = VersionOrd(specs[i].ver)
          [] specs[i].op = ">=" -> VersionOrd(v) >= VersionOrd(specs[i].ver)
          [] specs[i].op = "<" -> VersionOrd(v) < VersionOrd(specs[i].ver)

\* is_conflicting without lines 59-60: an unknown installed version is not
\* a conflict
is_conflictingIgnoresUnknown(self, modules) ==
    /\ installed_version(self, modules) # UNKNOWN_VERSION
    /\ LET ver_spec == IF version_spec(self) # None
                       THEN version_spec(self).specs ELSE <<>>
       IN  ~SpecifierContains(ver_spec, installed_version(self, modules))

\* ReqPackage.is_conflicting
is_conflicting(self, modules) ==
    IF installed_version(self, modules) = UNKNOWN_VERSION
    THEN TRUE
    ELSE LET ver_spec == IF version_spec(self) # None
                         THEN version_spec(self).specs ELSE <<>>
         IN  ~SpecifierContains(ver_spec, installed_version(self, modules))

(***************************************************************************)
(* Diagnostics (src/pipdeptree.py)                                         *)
(***************************************************************************)
\* conflicting_deps: a defaultdict(list) from root to its conflicting edges
conflicting_deps(g, modules) ==
    LET conflicts(rs) ==
            LET bad(req) == is_conflicting(req, modules)
            IN  SelectSeq(rs, bad)
        hit(kv) == conflicts(kv.v) # <<>>
        roots == SelectSeq(g.obj, hit)
    IN  [i \in DOMAIN roots |-> [k |-> roots[i].k, v |-> conflicts(roots[i].v)]]

\* cyclic_deps, line 246: index = {p.key: set(r.key for r in rs)}
CyclicIndex(g) ==
    [key \in RootKeySet(g.obj) |->
        LET last == CHOOSE i \in DOMAIN g.obj :
                        /\ g.obj[i].k.key = key
                        /\ \A j \in DOMAIN g.obj : g.obj[j].k.key = key => j <= i
        IN  {g.obj[last].v[j].key : j \in DOMAIN g.obj[last].v}]

\* CyclicOfRoot that reports a cycle of two from its smaller key only
CyclicOfRootOneWay(g, p, rs) ==
    LET index == CyclicIndex(g)
        cyc(r) == /\ r.key \in DOMAIN index
                  /\ p.key \in index[r.key]
                  /\ Ord(p.key) < Ord(r.key)
        hits == SelectSeq(rs, cyc)
    IN  [i \in DOMAIN hits |->
            LET on_r == DictGet(g.obj, get_node_as_parent(g, hits[i].key))
                is_p(x) == x.key = p.key
            IN  [p |-> p, r |-> hits[i],
                 p_as_dep_of_r |-> Head(SelectSeq(on_r, is_p))]]

\* CyclicOfRoot that also follows a second edge: it reports p -> r when p is
\* a target of r or of one of r's targets
CyclicOfRootTwoHops(g, p, rs) ==
    LET index == CyclicIndex(g)
        cyc(r) == /\ r.key \in DOMAIN index
                  /\ \/ p.key \in index[r.key]
                     \/ \E s \in index[r.key] \cap DOMAIN index : p.key \in index[s]
        hits == SelectSeq(rs, cyc)
    IN  [i \in DOMAIN hits |->
            LET on_r == DictGet(g.obj, get_node_as_parent(g, hits[i].key))
                is_p(x) == x.key = p.key
            IN  [p |-> p, r |-> hits[i],
                 p_as_dep_of_r |-> IF SelectSeq(on_r, is_p) = <<>>
                                   THEN None
                                   ELSE Head(SelectSeq(on_r, is_p))]]

\* cyclic_deps, lines 249-256: the triples of root p, over its edges rs
CyclicOfRoot(g, p, rs) ==
    LET index == CyclicIndex(g)
        cyc(r) == r.key \in DOMAIN index /\ p.key \in index[r.key]
        hits == SelectSeq(rs, cyc)
    IN  [i \in DOMAIN hits |->
            LET on_r == DictGet(g.obj, get_node_as_parent(g, hits[i].key))
                is_p(x) == x.key = p.key
            IN  [p |-> p, r |-> hits[i],
                 p_as_dep_of_r |-> Head(SelectSeq(on_r, is_p))]]

\* cyclic_deps
cyclic_deps(g) ==
    flatten([i \in DOMAIN g.obj |-> CyclicOfRoot(g, g.obj[i].k, g.obj[i].v)])

(***************************************************************************)
(* Rendering (src/pipdeptree.py, render_* of the package classes)          *)
(*                                                                         *)
(* A rendered string is the record of its parts; frozen is False (the      *)
(* frozen form is produced by pip's FrozenRequirement).                    *)
(***************************************************************************)
\* DistPackage.render_as_root, ReqPackage.render_as_root, frozen = False
render_as_root(self, modules) ==
    IF self.cls = "DistPackage"
    THEN [project_name |-> self.project_name, version |-> self.version]
    ELSE [project_name |-> self.project_name,
          version |-> installed_version(self, modules)]

\* DistPackage.render_as_branch, ReqPackage.render_as_branch, frozen = False
render_as_branch(self, modules) ==
    IF self.cls = "DistPackage"
    THEN IF self.req = None
         THEN Raise("AssertionError")
         ELSE [project_name |-> self.project_name, version |-> self.version,
               requires |-> [project_name |-> self.req.project_name,
                             version_spec |-> version_spec(self.req)]]
    ELSE [project_name |-> self.project_name,
          required |-> IF version_spec(self) # None
                       THEN version_spec(self) ELSE [cls |-> "str", specs |-> "Any"],
          installed |-> installed_version(self, modules)]

\* Package.render
render(self, parent, modules) ==
    IF parent # None
    THEN render_as_branch(self, modules)
    ELSE render_as_root(self, modules)

\* the project names of the edges of a graph
EdgeNames(g) == {r.project_name : r \in Range(flatten(DictValues(g.obj)))}

\* Calls of aux that may be nested before the recursion is declared not to
\* end: the chain of a call holds one distinct edge name per level below
\* the root, so a recursion that honours the chain is never nested deeper
\* than the number of edge names, plus the root.
RenderFuel(g) == Cardinality(EdgeNames(g)) + 1

\* render_text.aux, lines 44-57; a line is its indent, whether it has the
\* "- " prefix, and the rendered node
RECURSIVE TextAux(_, _, _, _, _, _, _)
TextAux(g, modules, node, parent, indent, chain, fuel) ==
    IF fuel = 0
    THEN <<Raise("RecursionError")>>
    ELSE LET fresh(c) == c.project_name \notin Range(chain)
             cs == SelectSeq(get_children(g, node.key), fresh)
         IN  <<[cls |-> "line", indent |-> indent, bullet |-> parent # None,
                text |-> render(node, parent, modules)]>>
             \o flatten([i \in DOMAIN cs |->
                    TextAux(g, modules, cs[i], node, indent + 2,
                            Append(chain, cs[i].project_name), fuel - 1)])

\* render_text, frozen = False: the lines it prints.  tree.sort() puts a new
\* graph on the heap.
render_text(heap, a, list_all, modules) ==
    LET sorted == sort(heap, a)
        g == sorted.heap[sorted.ret.addr]
        branch_keys == ChildKeys(g.obj)
        top(kv) == list_all \/ kv.k.key \notin branch_keys
        nodes == SelectSeq(g.obj, top)
        lines == flatten([i \in DOMAIN nodes |->
                     TextAux(g, modules, nodes[i].k, None, 0, <<>>, RenderFuel(g))])
    IN  [heap |-> sorted.heap,
         ret |-> IF \E i \in DOMAIN lines : IsRaise(lines[i])
                 THEN Raise("RecursionError")
                 ELSE IF \E i \in DOMAIN lines : "exc" \in DOMAIN lines[i].text
                 THEN Raise("AssertionError")
                 ELSE [cls |-> "lines", lines |-> lines]]

\* DistPackage.as_dict / ReqPackage.as_dict with the fields
\* render_json_tree.aux sets (lines 110-112)
JsonNode(node, parent, modules) ==
    LET installed == IF node.cls = "DistPackage"
                     THEN node.version
                     ELSE installed_version(node, modules)
        spec == IF node.cls = "DistPackage" THEN None ELSE version_spec(node)
    IN  [key |-> node.key,
         package_name |-> node.project_name,
         installed_version |-> installed,
         required_version |->
            IF parent # None
            THEN (IF spec # None THEN spec ELSE [cls |-> "str", specs |-> "Any"])
            ELSE [cls |-> "str", specs |-> installed]]

\* render_json_tree.aux, lines 106-120
RECURSIVE JsonAux(_, _, _, _, _, _)
JsonAux(g, modules, node, parent, chain, fuel) ==
    IF fuel = 0
    THEN Raise("RecursionError")
    ELSE LET fresh(c) == c.project_name \notin Range(chain)
             cs == SelectSeq(get_children(g, node.key), fresh)
             d == JsonNode(node, parent, modules)
         IN  [key |-> d.key, package_name |-> d.package_name,
              installed_version |-> d.installed_version,
              required_version |-> d.required_version,
              dependencies |->
                 [i \in DOMAIN cs |->
                     JsonAux(g, modules, cs[i], node,
                             Append(chain, cs[i].project_name), fuel - 1)]]

\* some call of aux below d ran out of fuel
RECURSIVE JsonOverflow(_)
JsonOverflow(d) ==
    \/ "exc" \in DOMAIN d
    \/ /\ "dependencies" \in DOMAIN d
       /\ \E i \in DOMAIN d.dependencies : JsonOverflow(d.dependencies[i])

\* render_json_tree: the list that is dumped.  tree.sort() puts a new graph
\* on the heap.
render_json_tree(heap, a, modules) ==
    LET sorted == sort(heap, a)
        g == sorted.heap[sorted.ret.addr]
        branch_keys == ChildKeys(g.obj)
        top(kv) == kv.k.key \notin branch_keys
        nodes == SelectSeq(g.obj, top)
        ds == [i \in DOMAIN nodes |->
                 JsonAux(g, modules, nodes[i].k, None,
                         <<nodes[i].k.project_name>>, RenderFuel(g) + 1)]
    IN  [heap |-> sorted.heap,
         ret |-> IF \E i \in DOMAIN ds : JsonOverflow(ds[i])
                 THEN Raise("RecursionError")
                 ELSE [cls |-> "json", list |-> ds]]

\* DistPackage.as_dict / ReqPackage.as_dict
as_dict(self, modules) ==
    IF self.cls = "DistPackage"
    THEN [key |-> self.key, package_name |-> self.project_name,
          installed_version |-> self.version]
    ELSE [key |-> self.key, package_name |-> self.project_name,
          installed_version |-> installed_version(self, modules),
          required_version |-> version_spec(self)]

\* render_json: the list that is dumped, in the order of the graph
render_json(heap, a, modules) ==
    LET g == heap[a]
    IN  [heap |-> heap,
         ret |-> [cls |-> "json",
                  list |-> [i \in DOMAIN g.obj |->
                      [package |-> as_dict(g.obj[i].k, modules),
                       dependencies |->
                          [j \in DOMAIN g.obj[i].v |->
                              as_dict(g.obj[i].v[j], modules)]]]]]

\* the output formats the graphviz backend of the model supports
GraphvizFormats == {"dot", "png"}

\* dump_graphviz, lines 157-169: the statements for one root of a forward
\* graph
GraphvizForward(pkg, deps, modules) ==
    <<[stmt |-> "node", name |-> pkg.key,
       label |-> <<pkg.project_name, pkg.version>>, style |-> ""]>>
    \o flatten([j \in DOMAIN deps |->
          IF is_missing(deps[j], modules)
          THEN <<[stmt |-> "node", name |-> deps[j].key,
                  label |-> <<deps[j].project_name, "(missing)">>,
                  style |-> "dashed"],
                 [stmt |-> "edge", tail |-> pkg.key, head |-> deps[j].key,
                  style |-> "dashed"]>>
          ELSE <<[stmt |-> "edge", tail |-> pkg.key, head |-> deps[j].key,
                  style |-> ""]>>])

\* dump_graphviz, lines 170-180: the statements for one root of a reversed
\* graph
GraphvizReverse(dep, parents, modules) ==
    <<[stmt |-> "node", name |-> dep.key,
       label |-> <<dep.project_name, installed_version(dep, modules)>>,
       style |-> ""]>>
    \o [j \in DOMAIN parents |->
          [stmt |-> "edge", tail |-> dep.key, head |-> parents[j].key,
           style |-> ""]]

\* dump_graphviz: graphviz is "ImportError" when the library cannot be
\* imported; sys.exit(1) is the exception SystemExit.  The result is the
\* graph's statements, as source for "dot" and piped through the backend
\* otherwise.
dump_graphviz(heap, a, output_format, is_reverse, graphviz, modules) ==
    LET g == heap[a]
        body == flatten([i \in DOMAIN g.obj |->
                    IF is_reverse
                    THEN GraphvizReverse(g.obj[i].k, g.obj[i].v, modules)
                    ELSE GraphvizForward(g.obj[i].k, g.obj[i].v, modules)])
    IN  [heap |-> heap,
         ret |-> IF graphviz = "ImportError"
                 THEN Raise("SystemExit")
                 ELSE IF output_format \notin GraphvizFormats
                 THEN Raise("SystemExit")
                 ELSE [cls |-> IF output_format = "dot" THEN "source" ELSE "piped",
                       body |-> body]]

(***************************************************************************)
(* The inventory: what get_installed_distributions returns                 *)
(***************************************************************************)
\* the keys of the installed distributions, in the order they are reported;
\* keys are pairwise distinct and lower case (pkg_resources: key is
\* project_name.lower())
Installed == <<"b", "a", "c">>

\* the version each installed distribution reports
InstalledVersion(key) == IF key = "b" THEN "2.0" ELSE "1.0"

\* the targets a declared requirement may have: "d" is never installed
Targets == {"a", "b", "c", "d"}

\* a requirement specifier that names its target by its key: "a"
Requirement(key) ==
    [kind |-> "both", key |-> key, project_name |-> key, specs |-> <<>>]

\* a requirement specifier with a version constraint: "a>=2.0"
RequirementAtLeast(key, ver) ==
    [kind |-> "both", key |-> key, project_name |-> key,
     specs |-> <<[op |-> ">=", ver |-> ver]>>]

\* the requirement specifiers of the inventories of Spec
PlainRequirements == {Requirement(key) : key \in Targets}

\* the requirement specifiers of the inventories of SpecDiag
VersionedRequirements ==
    PlainRequirements \cup {RequirementAtLeast(key, "2.0") : key \in Targets}

\* the sequences over S of length at most n
BoundedSeq(S, n) == UNION {[1..k -> S] : k \in 0..n}

\* the objects of an inventory: what pip reports (pkg_resources objects),
\* mappings with the fields of PackageType, a Distribution that also has
\* get and hands out pkg_resources requirements, and objects that have get
\* and the attributes throughout
ObjectKinds ==
    { [dist |-> "pkg_resources", req |-> "pkg_resources"],
      [dist |-> "mapping", req |-> "mapping"],
      [dist |-> "both", req |-> "pkg_resources"],
      [dist |-> "both", req |-> "both"] }

\* a distribution object of kind kinds.dist, whose requires() and
\* as_requirement() return objects of kind kinds.req
Distribution(key, requires, kinds) ==
    [kind |-> kinds.dist, as_req |-> kinds.req,
     key |-> key, project_name |-> key, version |-> InstalledVersion(key),
     requires |-> [j \in DOMAIN requires |->
                      [requires[j] EXCEPT !.kind = kinds.req]]]

\* the inventory of the first n distributions, the i-th declaring rs[i]
Inventory(n, rs, kinds) ==
    [i \in 1..n |-> Distribution(Installed[i], rs[i], kinds)]

(***************************************************************************)
(* The pipeline: transformations applied to the graph main() holds         *)
(***************************************************************************)
\* the include and exclude sets a filter call is given
FilterArgs ==
    { <<Absent, Absent>>,
      <<Given({"A"}), Absent>>,
      <<Absent, Given({"B"})>>,
      <<Given({"a", "c"}), Given({"b", "D"})>>,
      <<Given({"C"}), Given({"b"})>>,
      <<Given({"a"}), Given({"A"})>> }

\* the graph of the state: the object main() holds
Tree == dags[tree]

Running == raised = "" /\ Len(calls) < MaxOps

\* what a transformation call that returned r leaves behind
Applied(op, include, exclude, r) ==
    /\ dags' = r.heap
    /\ built' = built \o SubSeq(r.heap, Len(dags) + 1, Len(r.heap))
    /\ calls' = Append(calls,
                  [op |-> op, src |-> tree, include |-> include,
                   exclude |-> exclude,
                   ret |-> IF IsRaise(r.ret) THEN 0 ELSE r.ret.addr])
    /\ tree' = IF IsRaise(r.ret) THEN tree ELSE r.ret.addr
    /\ raised' = IF IsRaise(r.ret) THEN r.ret.exc ELSE raised

\* the state after a transformation call returned r
Returned(op, include, exclude, r) ==
    /\ Applied(op, include, exclude, r)
    /\ UNCHANGED <<pkgs, out, mainvars>>

\* tree = tree.reverse()
DoReverse ==
    /\ Running
    /\ Returned("reverse", Absent, Absent, reverse(dags, tree))

\* tree = tree.sort()
DoSort ==
    /\ Running
    /\ Returned("sort", Absent, Absent, sort(dags, tree))

\* tree = tree.filter(show_only, exclude)
DoFilter ==
    /\ Running
    /\ \E sets \in FilterArgs :
          Returned("filter", sets[1], sets[2],
                   filter(dags, tree, sets[1], sets[2]))

NoOutput == [fn |-> "none"]

\* no command line: the graph is used as a library
NoArgs == [warn |-> "suppress"]

\* n distributions are installed, which declare at most MaxEdges of the
\* requirement specifiers reqs between them, and from_pkgs has built the
\* graph or has raised
Built(n, reqs) ==
    /\ \E kinds \in ObjectKinds :
       \E r1 \in BoundedSeq(reqs, IF n >= 1 THEN MaxEdges ELSE 0) :
       \E r2 \in BoundedSeq(reqs, IF n >= 2 THEN MaxEdges - Len(r1) ELSE 0) :
       \E r3 \in BoundedSeq(reqs, IF n = 3 THEN MaxEdges - Len(r1) - Len(r2) ELSE 0) :
          pkgs = Inventory(n, <<r1, r2, r3>>, kinds)
    /\ LET g == from_pkgs(pkgs)
       IN  /\ dags = IF IsRaise(g) THEN <<>> ELSE <<g>>
           /\ tree = IF IsRaise(g) THEN 0 ELSE 1
           /\ raised = IF IsRaise(g) THEN g.exc ELSE ""
    /\ built = dags
    /\ calls = <<>>
    /\ out = NoOutput

\* the graph is built and used as a library, outside main()
Start(n, reqs) ==
    /\ Built(n, reqs)
    /\ args = NoArgs
    /\ pc = "tree"
    /\ return_code = 0

Init == Start(3, PlainRequirements)

Next == DoReverse \/ DoSort \/ DoFilter

Spec == Init /\ [][Next]_vars

(***************************************************************************)
(* Vocabulary of the properties                                            *)
(***************************************************************************)
\* the keys of the roots of a graph, in root order
RootKeySeq(g) == [i \in DOMAIN g.obj |-> g.obj[i].k.key]

RootKeys(g) == Range(RootKeySeq(g))

\* the keys of the edges of the i-th root, in edge order
EdgeKeySeq(g, i) == [j \in DOMAIN g.obj[i].v |-> g.obj[i].v[j].key]

\* the keys that are the target of some edge
EdgeTargetKeys(g) == UNION {Range(EdgeKeySeq(g, i)) : i \in DOMAIN g.obj}

\* the keys of the edge targets of the root with the given key
EdgeKeysOf(g, key) ==
    UNION {Range(EdgeKeySeq(g, i)) : i \in {j \in DOMAIN g.obj : g.obj[j].k.key = key}}

\* how often x occurs in the sequence s
Count(s, x) == Cardinality({i \in DOMAIN s : s[i] = x})

\* s and t hold the same elements, each as often
SameBag(s, t) ==
    /\ Len(s) = Len(t)
    /\ \A x \in Range(s) \cup Range(t) : Count(s, x) = Count(t, x)

Ascending(ks) == \A i, j \in DOMAIN ks : i < j => Ord(ks[i]) <= Ord(ks[j])

StrictlyAscending(ks) == \A i, j \in DOMAIN ks : i < j => Ord(ks[i]) < Ord(ks[j])

\* the call that was made last, and what it was given and returned
LastCall == calls[Len(calls)]

Called(op) == Len(calls) > 0 /\ LastCall.op = op

CalledOk(op) == Called(op) /\ LastCall.ret # 0

Receiver == dags[LastCall.src]

Result == dags[LastCall.ret]

(***************************************************************************)
(* Properties of the transformations, stated under Spec                    *)
(***************************************************************************)
\* g and h have the same set of root keys and, per root key, the same set
\* of edge-target keys
SameStructure(g, h) ==
    /\ RootKeys(g) = RootKeys(h)
    /\ \A key \in RootKeys(g) : EdgeKeysOf(g, key) = EdgeKeysOf(h, key)

\* the run reversed the graph from_pkgs built and reversed the result again
ReversedTwice ==
    /\ Len(calls) >= 2
    /\ calls[1].op = "reverse" /\ calls[1].src = 1 /\ calls[1].ret # 0
    /\ calls[2].op = "reverse" /\ calls[2].src = calls[1].ret

\* C1: for every graph G built by from_pkgs, cyclic graphs and graphs with
\* edges to packages that are not installed included, G.reverse().reverse()
\* completes and yields a graph with the root keys of G and, per root, the
\* edge-target keys of G.
C1_ReverseTwiceRestores ==
    ReversedTwice =>
        /\ calls[2].ret # 0
        /\ SameStructure(dags[1], dags[calls[2].ret])

\* the keys a filter call compares with, case-folded
Folded(opt) == {Lower(s) : s \in opt.members}

\* the seeds of filter(g, I, E)
Seeds(g, I, E) ==
    {key \in RootKeys(g) :
        key \notin Folded(E) /\ (I.present => key \in Folded(I))}

\* the keys reachable in g from the set S along edges whose target is not
\* excluded
RECURSIVE ReachableFrom(_, _, _)
ReachableFrom(g, E, S) ==
    LET step == {t \in EdgeTargetKeys(g) \ Folded(E) :
                    \E key \in S : t \in EdgeKeysOf(g, key)}
    IN  IF step \subseteq S THEN S ELSE ReachableFrom(g, E, S \cup step)

\* C2: for every graph G and disjoint I and E, every root of filter(G, I, E)
\* is reachable in G from a seed along edges that avoid E, and no key of E
\* is a root or an edge target of the result.
C2_FilterSelectsReachable ==
    (/\ Called("filter")
     /\ Folded(LastCall.include) \cap Folded(LastCall.exclude) = {})
    => /\ LastCall.ret # 0
       /\ LET I == LastCall.include
              E == LastCall.exclude
          IN  /\ RootKeys(Result) \subseteq
                    ReachableFrom(Receiver, E, Seeds(Receiver, I, E))
              /\ Folded(E) \cap RootKeys(Result) = {}
              /\ Folded(E) \cap EdgeTargetKeys(Result) = {}

\* a filter call with both sets that dropped a root and an edge of a root
\* it kept
C2_Witness ==
    /\ CalledOk("filter")
    /\ LastCall.include.present /\ LastCall.exclude.present
    /\ Len(Result.obj) >= 2
    /\ RootKeys(Result) # RootKeys(Receiver)
    /\ \E key \in RootKeys(Result) :
          EdgeKeysOf(Receiver, key) \cap Folded(LastCall.exclude) # {}

\* C7: filter(G, None, None) is the identity: the roots of G in their
\* order, each with its edge list.
C7_FilterNoneIsIdentity ==
    (/\ Called("filter")
     /\ ~LastCall.include.present /\ ~LastCall.exclude.present)
    => /\ LastCall.ret # 0
       /\ Result.obj = built[LastCall.src].obj

\* filter(G, None, None) was called on a graph that a traversal would
\* reorder: the second root is an edge target of the first root's target
C7_Witness ==
    /\ CalledOk("filter")
    /\ ~LastCall.include.present /\ ~LastCall.exclude.present
    /\ Len(Receiver.obj) = 3
    /\ Receiver.obj[1].v # <<>>
    /\ Receiver.obj[1].v[1].key = Receiver.obj[3].k.key

\* C9: no transformation changes a graph that exists: every graph on the
\* heap (roots, root order, edge lists, key index) is as it was built.
C9_NoMutation ==
    \A a \in DOMAIN dags : dags[a] = built[a]

\* a filter call and another transformation each returned a new graph
C9_Witness ==
    /\ Len(dags) = 3
    /\ \E i \in DOMAIN calls : calls[i].op = "filter"
    /\ \E i \in DOMAIN calls : calls[i].op # "filter"
    /\ EdgeCount(dags[1].obj) >= 2

\* C10: reverse(G) of a forward graph G has one root per key among the
\* edge targets and the roots of G; under root r it lists the roots of G
\* with an edge to r, once per such edge; a root of G that is no edge
\* target has no dependents.
C10_ReverseRoots ==
    (Called("reverse") /\ Receiver.cls = "PackageDAG") =>
        /\ LastCall.ret # 0
        /\ RootKeys(Result) = EdgeTargetKeys(Receiver) \cup RootKeys(Receiver)
        /\ \A i, j \in DOMAIN Result.obj :
              i # j => Result.obj[i].k.key # Result.obj[j].k.key
        /\ \A i \in DOMAIN Result.obj :
              /\ Range(EdgeKeySeq(Result, i)) \subseteq RootKeys(Receiver)
              /\ \A j \in DOMAIN Receiver.obj :
                    Count(EdgeKeySeq(Result, i), Receiver.obj[j].k.key)
                      = Count(EdgeKeySeq(Receiver, j), Result.obj[i].k.key)
              /\ Result.obj[i].k.key \notin EdgeTargetKeys(Receiver)
                    => Result.obj[i].v = <<>>

\* the last call was a filter whose include and exclude sets share a
\* member once lower-cased
OverlappingFilter ==
    /\ Called("filter")
    /\ LastCall.include.present /\ LastCall.exclude.present
    /\ Folded(LastCall.include) \cap Folded(LastCall.exclude) # {}

\* C12: a filter call whose include and exclude sets share a member after
\* lower-casing is rejected with an AssertionError: it returns no graph, it
\* constructs none (every graph but the first was returned by a call), and
\* the receiver stays the graph that is held.
C12_OverlapRejected ==
    OverlappingFilter =>
        /\ LastCall.ret = 0
        /\ raised = "AssertionError"
        /\ tree = LastCall.src
        /\ \A a \in DOMAIN dags :
              a = 1 \/ \E i \in DOMAIN calls : calls[i].ret = a

\* a filter call was rejected whose sets differ as given and overlap only
\* once lower-cased, on a graph where the shared key is a root with an edge
C12_Witness ==
    /\ OverlappingFilter
    /\ raised = "AssertionError"
    /\ LastCall.include.members \cap LastCall.exclude.members = {}
    /\ \E key \in Folded(LastCall.include) \cap Folded(LastCall.exclude) :
          key \in RootKeys(Receiver) /\ EdgeKeysOf(Receiver, key) # {}

\* C14: the result of filter(G, I, E) with at least one set present is
\* closed under the dependencies that are not excluded: every root of the
\* result is a root of G and carries its edge list in G without the edges
\* whose target key is in E, in the original order, and every edge target of
\* the result that is a root of G is a root of the result.
C14_FilterClosed ==
    (/\ CalledOk("filter")
     /\ LastCall.include.present \/ LastCall.exclude.present)
    => LET E == Folded(LastCall.exclude)
           kept(c) == c.key \notin E
       IN  /\ \A i \in DOMAIN Result.obj :
                 /\ DictHas(Receiver.obj, Result.obj[i].k)
                 /\ Result.obj[i].v
                      = SelectSeq(DictGet(Receiver.obj, Result.obj[i].k), kept)
           /\ EdgeTargetKeys(Result) \cap RootKeys(Receiver)
                 \subseteq RootKeys(Result)

\* a filter call with an include set and an exclude set kept a root that
\* lost an edge to an excluded key and kept an edge to a root that is not
\* in the include set, which the result holds as a root
C14_Witness ==
    /\ CalledOk("filter")
    /\ LastCall.include.present /\ LastCall.exclude.present
    /\ \E i \in DOMAIN Result.obj :
          /\ Len(Result.obj[i].v) < Len(DictGet(Receiver.obj, Result.obj[i].k))
          /\ \E t \in Range(EdgeKeySeq(Result, i)) :
                /\ t \notin Folded(LastCall.include)
                /\ t \in RootKeys(Receiver)
                /\ t \in RootKeys(Result)

\* the graph is well formed: every root is a package node with a key, no
\* two roots have the same key, and the index maps exactly the root keys,
\* each to the root that has it
WellFormed(g) ==
    /\ g.cls \in {"PackageDAG", "ReversedPackageDAG"}
    /\ \A i \in DOMAIN g.obj :
          /\ g.obj[i].k.cls \in {"DistPackage", "ReqPackage"}
          /\ g.obj[i].k.key \in Targets
    /\ \A i, j \in DOMAIN g.obj : i # j => g.obj[i].k.key # g.obj[j].k.key
    /\ DOMAIN g.index = RootKeys(g)
    /\ \A i \in DOMAIN g.obj : g.index[g.obj[i].k.key] = g.obj[i].k

\* C16: from a graph built by from_pkgs over an inventory with pairwise
\* distinct keys, after any sequence of filter, reverse and sort calls the
\* graph that is held, like every graph the calls returned, is well formed.
C16_WellFormedPipeline ==
    /\ tree # 0 => WellFormed(Tree)
    /\ \A a \in DOMAIN dags : WellFormed(dags[a])

\* a graph with a root that has two dependents was reversed and reversed
\* back, and the graph that came back has three roots and two edges
C16_Witness ==
    /\ Len(calls) = 2
    /\ calls[1].op = "reverse" /\ calls[2].op = "reverse" /\ calls[2].ret # 0
    /\ tree = calls[2].ret
    /\ Tree.cls = "PackageDAG"
    /\ Len(Tree.obj) = 3
    /\ \E i \in DOMAIN dags[calls[1].ret].obj :
          Cardinality(Range(EdgeKeySeq(dags[calls[1].ret], i))) = 2

(***************************************************************************)
(* SpecSort: sort and reverse on graphs in which one distribution may      *)
(* declare two different requirements on the same package                  *)
(***************************************************************************)
\* the requirement specifiers of the inventories of SpecSort: "a" and
\* "a>=2.0" have the same key and are told apart by their specs
SortRequirements == PlainRequirements \cup {RequirementAtLeast("a", "2.0")}

InitSort == Start(3, SortRequirements)

NextSort == DoSort \/ DoReverse

SpecSort == InitSort /\ [][NextSort]_vars

\* sort(G) has the roots of G and, per root, the edges of G
SortKeepsContent(g, h) ==
    /\ SameBag(DictKeys(g.obj), DictKeys(h.obj))
    /\ \A i \in DOMAIN g.obj :
          SameBag(g.obj[i].v, DictGet(h.obj, g.obj[i].k))

\* the entries of an edge list that have the given key, in their order
WithKey(v, key) ==
    LET HasKey(e) == e.key = key
    IN  SelectSeq(v, HasKey)

\* under every root of g, the edges of h that share a key are in the order
\* they have in g
SameKeyOrderKept(g, h) ==
    \A i \in DOMAIN g.obj :
       \A key \in Targets :
          WithKey(DictGet(h.obj, g.obj[i].k), key) = WithKey(g.obj[i].v, key)

\* the last two calls sorted a graph and sorted the result again
SortedTwice ==
    /\ Len(calls) >= 2
    /\ CalledOk("sort")
    /\ calls[Len(calls) - 1].op = "sort"
    /\ calls[Len(calls) - 1].ret = LastCall.src

\* C8 as stated: sort(G) has the roots and edges of G, root order and every
\* root's edge order strictly ascending by key, and sort(sort(G)) = sort(G).
C8_SortStrict ==
    Called("sort") =>
        /\ LastCall.ret # 0
        /\ SortKeepsContent(Receiver, Result)
        /\ StrictlyAscending(RootKeySeq(Result))
        /\ \A i \in DOMAIN Result.obj : StrictlyAscending(EdgeKeySeq(Result, i))
        /\ SortedTwice => Result.obj = Receiver.obj

\* C8 amended: sort(G), of a forward or a reversed graph G, has the roots
\* and edges of G; its root order is strictly ascending by key; every
\* root's edge order is ascending, and strictly ascending for a root whose
\* edges have pairwise distinct target keys; edges of one root with the
\* same target key keep the order they have in G; sort(sort(G)) = sort(G).
C8_SortAscending ==
    Called("sort") =>
        /\ LastCall.ret # 0
        /\ SortKeepsContent(Receiver, Result)
        /\ StrictlyAscending(RootKeySeq(Result))
        /\ \A i \in DOMAIN Result.obj :
              /\ Ascending(EdgeKeySeq(Result, i))
              /\ (\A j, l \in DOMAIN Result.obj[i].v :
                     j # l => Result.obj[i].v[j].key # Result.obj[i].v[l].key)
                 => StrictlyAscending(EdgeKeySeq(Result, i))
        /\ SameKeyOrderKept(Receiver, Result)
        /\ SortedTwice => Result.obj = Receiver.obj

\* a graph was sorted and the result sorted again; its roots were out of
\* order, and under its first root two different edges with the same key
\* came after an edge with a greater key
C8_Witness ==
    /\ SortedTwice
    /\ LET g == dags[calls[Len(calls) - 1].src]
       IN  /\ ~Ascending(RootKeySeq(g))
           /\ Len(g.obj[1].v) = 3
           /\ Ord(g.obj[1].v[1].key) > Ord(g.obj[1].v[2].key)
           /\ g.obj[1].v[2].key = g.obj[1].v[3].key
           /\ g.obj[1].v[2] # g.obj[1].v[3]

(***************************************************************************)
(* SpecDiag: the diagnostics main() runs on the graph from_pkgs built      *)
(***************************************************************************)
\* what import_module finds for the key that is never installed
ModuleStates ==
    {[key \in Targets |-> IF key = "d" THEN found ELSE "ImportError"] :
        found \in {"ImportError", "NoVersion", "1.0", "2.0"}}

\* conflicts = conflicting_deps(tree)
ConflictingDeps ==
    /\ raised = "" /\ out = NoOutput
    /\ \E modules \in ModuleStates :
          out' = [fn |-> "conflicting_deps", modules |-> modules,
                  ret |-> conflicting_deps(Tree, modules)]
    /\ UNCHANGED <<pkgs, dags, built, calls, tree, raised, mainvars>>

\* cycles = cyclic_deps(tree)
CyclicDeps ==
    /\ raised = "" /\ out = NoOutput
    /\ out' = [fn |-> "cyclic_deps", ret |-> cyclic_deps(Tree)]
    /\ UNCHANGED <<pkgs, dags, built, calls, tree, raised, mainvars>>

InitDiag == \E n \in {2, 3} : Start(n, VersionedRequirements)

NextDiag == ConflictingDeps \/ CyclicDeps

SpecDiag == InitDiag /\ [][NextDiag]_vars

\* the graph has exactly two edges, p -> r and r -> p, between two roots
TwoCycle(g, p, r) ==
    /\ p # r
    /\ \A i \in DOMAIN g.obj :
          EdgeKeySeq(g, i) = IF g.obj[i].k.key = p THEN <<r>>
                             ELSE IF g.obj[i].k.key = r THEN <<p>>
                             ELSE <<>>

\* the triple cyclic_deps reports for the edge p -> r: p, the edge, and the
\* edge for p on r's list
CycleTriple(g, p, r) ==
    [p |-> get_node_as_parent(g, p),
     r |-> Head(DictGet(g.obj, get_node_as_parent(g, p))),
     p_as_dep_of_r |-> Head(DictGet(g.obj, get_node_as_parent(g, r)))]

\* C3 as stated: on a graph whose only edges are A -> B and B -> A,
\* cyclic_deps returns exactly one triple, (A, B, the edge for A on B's list).
C3_OneTriple ==
    out.fn = "cyclic_deps" =>
        \A p, r \in RootKeys(Tree) :
            TwoCycle(Tree, p, r) =>
                /\ Len(out.ret) = 1
                /\ \E A, B \in {p, r} : out.ret = <<CycleTriple(Tree, A, B)>>

\* C3 amended: it returns exactly two triples, one per edge, in root order:
\* (A, B, the edge for A on B's list) and (B, A, the edge for B on A's list).
C3_TwoTriples ==
    out.fn = "cyclic_deps" =>
        \A i, j \in DOMAIN Tree.obj :
            (i < j /\ TwoCycle(Tree, Tree.obj[i].k.key, Tree.obj[j].k.key)) =>
                out.ret = <<CycleTriple(Tree, Tree.obj[i].k.key, Tree.obj[j].k.key),
                            CycleTriple(Tree, Tree.obj[j].k.key, Tree.obj[i].k.key)>>

\* cyclic_deps ran on a graph of two packages whose only edges are a cycle,
\* each edge with its own version constraint
C3_Witness ==
    /\ out.fn = "cyclic_deps"
    /\ Len(Tree.obj) = 2
    /\ TwoCycle(Tree, "a", "b")
    /\ Tree.obj[1].v[1].specs # Tree.obj[2].v[1].specs

\* the edges of the i-th root whose target has no installed package
MissingEdges(g, i) == {j \in DOMAIN g.obj[i].v : g.obj[i].v[j].dist = None}

\* conflicting_deps lists the j-th edge of the i-th root under that root
Reported(conflicts, g, i, j) ==
    /\ DictHas(conflicts, g.obj[i].k)
    /\ g.obj[i].v[j] \in Range(DictGet(conflicts, g.obj[i].k))

\* C4 as stated: every edge whose target has no installed package is
\* reported by conflicting_deps under its root, whatever its constraint
\* and whatever the fallback version lookup finds.
C4_MissingAlwaysReported ==
    out.fn = "conflicting_deps" =>
        \A i \in DOMAIN Tree.obj : \A j \in MissingEdges(Tree, i) :
            Reported(out.ret, Tree, i, j)

\* C4 amended: such an edge is reported, whatever its constraint, when the
\* fallback lookup finds no version (the module cannot be imported or has
\* no __version__); when the lookup finds a version, the edge is reported
\* exactly when that version does not satisfy its constraint.
C4_MissingReportedUnlessGuessed ==
    out.fn = "conflicting_deps" =>
        \A i \in DOMAIN Tree.obj : \A j \in MissingEdges(Tree, i) :
            LET req == Tree.obj[i].v[j]
                found == out.modules[req.key]
            IN  IF found \in {"ImportError", "NoVersion"}
                THEN Reported(out.ret, Tree, i, j)
                ELSE Reported(out.ret, Tree, i, j)
                        <=> ~SpecifierContains(req.specs, found)

\* conflicting_deps ran on a graph with two edges to a package that is not
\* installed, one with and one without a constraint, and no version found
C4_Witness ==
    /\ out.fn = "conflicting_deps"
    /\ out.modules["d"] = "NoVersion"
    /\ \E i \in DOMAIN Tree.obj :
          /\ \E j \in MissingEdges(Tree, i) : Tree.obj[i].v[j].specs = <<>>
          /\ \E j \in MissingEdges(Tree, i) : Tree.obj[i].v[j].specs # <<>>
          /\ \A j \in MissingEdges(Tree, i) : Reported(out.ret, Tree, i, j)

\* the only edges of the graph are p -> q, q -> r and r -> p, between three
\* roots
ThreeCycle(g, p, q, r) ==
    /\ p # q /\ q # r /\ p # r
    /\ \A i \in DOMAIN g.obj :
          EdgeKeySeq(g, i) = IF g.obj[i].k.key = p THEN <<q>>
                             ELSE IF g.obj[i].k.key = q THEN <<r>>
                             ELSE IF g.obj[i].k.key = r THEN <<p>>
                             ELSE <<>>

\* C11: cyclic_deps reports a triple (A, B, e) only when A has an edge to B
\* and B has an edge to A, e being an edge for A on B's list; on a graph
\* whose only edges are the cycle A -> B -> C -> A it reports nothing.
C11_OnlyTwoCycles ==
    out.fn = "cyclic_deps" =>
        /\ \A n \in DOMAIN out.ret :
              LET t == out.ret[n]
              IN  /\ DictHas(Tree.obj, t.p)
                  /\ t.r \in Range(DictGet(Tree.obj, t.p))
                  /\ get_node_as_parent(Tree, t.r.key) # None
                  /\ t.p_as_dep_of_r \in
                        Range(DictGet(Tree.obj, get_node_as_parent(Tree, t.r.key)))
                  /\ t.p_as_dep_of_r.key = t.p.key
        /\ (\E p, q, r \in RootKeys(Tree) : ThreeCycle(Tree, p, q, r))
              => out.ret = <<>>

\* cyclic_deps ran on a graph of three packages whose only edges are a
\* cycle through all three
C11_Witness ==
    /\ out.fn = "cyclic_deps"
    /\ ThreeCycle(Tree, "a", "b", "c")
    /\ out.ret = <<>>

\* the places in the inventory of the distributions with the given key
InstalledAt(key) == {n \in DOMAIN pkgs : pkgs[n].key = key}

\* the node is the wrapper of the n-th distribution of the inventory
WrapsDistribution(node, n) ==
    /\ node.cls = "DistPackage"
    /\ node.key = pkgs[n].key
    /\ node.project_name = pkgs[n].project_name
    /\ node.version = pkgs[n].version

\* C13: from_pkgs succeeds on every inventory, also when a requirement's
\* target is not installed: the graph has one root per distribution, in
\* inventory order, with one edge per declared requirement, in declaration
\* order; an edge's dist is the installed distribution of its key when there
\* is one and None otherwise.
C13_FromPkgsRepresentsInventory ==
    /\ raised # "AttributeError"
    /\ built # <<>>
    /\ LET g == built[1]
       IN
        /\ g.cls = "PackageDAG"
        /\ DOMAIN g.obj = DOMAIN pkgs
        /\ \A i \in DOMAIN pkgs :
              /\ WrapsDistribution(g.obj[i].k, i)
              /\ DOMAIN g.obj[i].v = DOMAIN pkgs[i].requires
              /\ \A j \in DOMAIN pkgs[i].requires :
                    LET e == g.obj[i].v[j]
                        r == pkgs[i].requires[j]
                    IN  /\ e.cls = "ReqPackage"
                        /\ e.key = r.key
                        /\ e.project_name = r.project_name
                        /\ e.specs = r.specs
                        /\ IF InstalledAt(r.key) = {}
                           THEN e.dist = None
                           ELSE \E n \in InstalledAt(r.key) :
                                   WrapsDistribution(e.dist, n)

(***************************************************************************)
(* SpecRender: main()'s pipeline (reverse, filter) and the tree renderers  *)
(***************************************************************************)
\* the requirement specifiers of the inventories of SpecRender: one spells
\* its target's name in upper case
NamedRequirements ==
    PlainRequirements
    \cup {[kind |-> "both", key |-> "a", project_name |-> "A", specs |-> <<>>]}

\* no key of the model is an importable module when the tree is rendered
NoModules == [key \in Targets |-> "ImportError"]

\* main(), lines 421-422: tree = tree.reverse(), before any filter
MainReverse ==
    /\ raised = "" /\ out = NoOutput /\ calls = <<>>
    /\ Returned("reverse", Absent, Absent, reverse(dags, tree))

\* main(), line 430: tree = tree.filter(show_only, exclude)
MainFilter ==
    /\ raised = "" /\ out = NoOutput
    /\ \A i \in DOMAIN calls : calls[i].op # "filter"
    /\ \E sets \in FilterArgs :
          Returned("filter", sets[1], sets[2],
                   filter(dags, tree, sets[1], sets[2]))

\* what a renderer that returned r leaves behind
Output(fn, list_all, r) ==
    /\ dags' = r.heap
    /\ built' = built \o SubSeq(r.heap, Len(dags) + 1, Len(r.heap))
    /\ out' = [fn |-> fn, list_all |-> list_all, ret |-> r.ret]
    /\ raised' = IF IsRaise(r.ret) THEN r.ret.exc ELSE raised

\* the state after a renderer returned r
Rendered(fn, list_all, r) ==
    /\ Output(fn, list_all, r)
    /\ UNCHANGED <<pkgs, calls, tree, mainvars>>

\* main(), line 442: render_text(tree, args.all, args.freeze)
RenderText ==
    /\ raised = "" /\ out = NoOutput
    /\ \E list_all \in BOOLEAN :
          Rendered("render_text", list_all,
                   render_text(dags, tree, list_all, NoModules))

\* main(), line 435: render_json_tree(tree, indent=4)
RenderJsonTree ==
    /\ raised = "" /\ out = NoOutput
    /\ Rendered("render_json_tree", FALSE,
                render_json_tree(dags, tree, NoModules))

InitRender == Start(3, NamedRequirements)

NextRender == MainReverse \/ MainFilter \/ RenderText \/ RenderJsonTree

SpecRender == InitRender /\ [][NextRender]_vars

\* the names on the path from its root down to the i-th line of a text
\* tree: per smaller indent, the last line before i with that indent
TextPath(lines, i) ==
    LET above(n) == {j \in 1..(i - 1) : lines[j].indent = n}
        last(n) == CHOOSE j \in above(n) : \A l \in above(n) : l <= j
        levels == {n \in 0..lines[i].indent : n < lines[i].indent /\ above(n) # {}
                                               /\ n % 2 = 0}
    IN  [n \in levels |-> lines[last(n)].text.project_name]

\* no name occurs twice on the path to any line of a text tree
TextPathsDistinct(lines) ==
    \A i \in DOMAIN lines :
        LET path == TextPath(lines, i)
        IN  /\ \A n \in DOMAIN path : path[n] # lines[i].text.project_name
            /\ \A n, l \in DOMAIN path : n # l => path[n] # path[l]

\* no name occurs twice on a path of a nested JSON tree below d, given the
\* names above d
RECURSIVE JsonPathsDistinct(_, _)
JsonPathsDistinct(d, above) ==
    /\ d.package_name \notin above
    /\ \A i \in DOMAIN d.dependencies :
          JsonPathsDistinct(d.dependencies[i], above \cup {d.package_name})

\* C5: in render_text (list_all or not) and render_json_tree no display
\* name occurs twice on a path from a rendered root down to a rendered node.
C5_NoNameTwiceOnPath ==
    /\ (out.fn = "render_text" /\ ~IsRaise(out.ret))
          => TextPathsDistinct(out.ret.lines)
    /\ (out.fn = "render_json_tree" /\ ~IsRaise(out.ret))
          => \A i \in DOMAIN out.ret.list : JsonPathsDistinct(out.ret.list[i], {})

\* C6: every traversal finishes on every graph, cyclic ones included:
\* filter within one visit per root and per edge, render_text and
\* render_json_tree without nesting aux deeper than there are edge names.
C6_TraversalsTerminate ==
    /\ raised \notin {"NoTermination", "RecursionError"}
    /\ Called("filter") => (LastCall.ret # 0 \/ raised = "AssertionError")
    /\ out.fn \in {"render_text", "render_json_tree"} => ~IsRaise(out.ret)

\* the key is on a cycle of g: it reaches itself
OnCycle(g, key) ==
    \E t \in EdgeKeysOf(g, key) : key \in ReachableFrom(g, Absent, {t})

\* a graph with a self-loop and a longer cycle was traversed by filter, and
\* the result, which kept a cycle, was rendered as text
C6_Witness ==
    /\ CalledOk("filter") /\ LastCall.exclude.present
    /\ \E key \in RootKeys(Receiver) : key \in EdgeKeysOf(Receiver, key)
    /\ \E key \in RootKeys(Receiver) :
          key \notin EdgeKeysOf(Receiver, key) /\ OnCycle(Receiver, key)
    /\ \E key \in RootKeys(Tree) : OnCycle(Tree, key)
    /\ out.fn = "render_text" /\ ~IsRaise(out.ret)
    /\ Len(out.ret.lines) > Len(Tree.obj)

(***************************************************************************)
(* SpecMain: main() of src/pipdeptree.py, from the parsed command line to  *)
(* the exit status, in its four steps: diagnostics, reverse, filter,       *)
(* render.  frozen is False and no key of the model is an importable       *)
(* module.                                                                 *)
(***************************************************************************)
\* the requirement specifiers of the inventories of SpecMain
MainRequirements ==
    {Requirement("a"), Requirement("b"), Requirement("d"),
     RequirementAtLeast("a", "2.0")}

\* --json, --json-tree, --graph-output and --all as the parser leaves them;
\* an option that takes a value and was not given is None, which the code
\* only tests for truth: it is the empty value here
MainFormats ==
    {[json |-> j, json_tree |-> t, output_format |-> "", all |-> al] :
        j \in BOOLEAN, t \in BOOLEAN, al \in BOOLEAN}
    \cup {[json |-> FALSE, json_tree |-> FALSE, output_format |-> f, all |-> FALSE] :
            f \in {"dot", "bogus"}}

\* --packages and --exclude, each the names between its commas
MainSets ==
    { << <<>>, <<>> >>, << <<>>, <<"B">> >>, << <<"a", "b">>, <<"A">> >> }

\* the command lines of the model; --json and --json-tree together are
\* given with --all off only
MainArgs ==
    {[warn |-> w, json |-> f.json, json_tree |-> f.json_tree,
      output_format |-> f.output_format, all |-> f.all, freeze |-> FALSE,
      reverse |-> r, packages |-> ps[1], exclude |-> ps[2]] :
        w \in {"silence", "suppress", "fail"}, r \in BOOLEAN, ps \in MainSets,
        f \in {x \in MainFormats :
                 (x.json \/ x.json_tree) => ~x.all}}

\* main(), lines 424-425: set(names.split(",")) if names else None
SetOrNone(names) ==
    IF names = <<>> THEN Absent ELSE Given(Range(names))

\* is_text_output that holds whatever the output format is
is_text_outputAlways(a) == TRUE

\* main(), line 398
is_text_output(a) == ~(a.json \/ a.json_tree \/ a.output_format # "")

\* main(), lines 400-417: the diagnostics it shows and the return code
diagnostics(g, a, modules) ==
    IF is_text_output(a) /\ a.warn # "silence"
    THEN LET conflicts == conflicting_deps(g, modules)
             cycles == cyclic_deps(g)
         IN  [shown |-> TRUE, conflicts |-> conflicts, cycles |-> cycles,
              return_code |-> IF a.warn = "fail"
                                 /\ (conflicts # <<>> \/ cycles # <<>>)
                              THEN 1 ELSE 0]
    ELSE [shown |-> FALSE, return_code |-> 0]

\* main(), lines 398-417
DiagnosticsStep ==
    /\ pc = "diagnostics"
    /\ LET d == diagnostics(Tree, args, NoModules)
       IN  /\ return_code' = d.return_code
           /\ out' = IF d.shown
                     THEN [fn |-> "warnings", conflicts |-> d.conflicts,
                           cycles |-> d.cycles]
                     ELSE out
    /\ pc' = "reverse"
    /\ UNCHANGED <<pkgs, dags, built, calls, tree, raised, args>>

\* main(), lines 421-422; an AttributeError ends the run
ReverseStep ==
    /\ pc = "reverse"
    /\ IF args.reverse
       THEN Applied("reverse", Absent, Absent, reverse(dags, tree))
       ELSE UNCHANGED <<dags, built, calls, tree, raised>>
    /\ pc' = IF raised' # "" THEN "done" ELSE "filter"
    /\ UNCHANGED <<pkgs, out, args, return_code>>

\* main(), lines 424-430; an AssertionError ends the run
FilterStep ==
    /\ pc = "filter"
    /\ LET show_only == SetOrNone(args.packages)
           exclude == SetOrNone(args.exclude)
           r == filter(dags, tree, show_only, exclude)
       IN  /\ Applied("filter", show_only, exclude, r)
           /\ pc' = IF IsRaise(r.ret) THEN "done" ELSE "render"
    /\ UNCHANGED <<pkgs, out, args, return_code>>

\* main(), lines 432-442; graphviz may or may not be installed
RenderStep ==
    /\ pc = "render"
    /\ IF args.json
       THEN Output("render_json", FALSE, render_json(dags, tree, NoModules))
       ELSE IF args.json_tree
       THEN Output("render_json_tree", FALSE,
                   render_json_tree(dags, tree, NoModules))
       ELSE IF args.output_format # ""
       THEN \E graphviz \in {"ImportError", "available"} :
               Output("dump_graphviz", FALSE,
                      dump_graphviz(dags, tree, args.output_format,
                                    args.reverse, graphviz, NoModules))
       ELSE Output("render_text", args.all,
                   render_text(dags, tree, args.all, NoModules))
    /\ pc' = "done"
    /\ UNCHANGED <<pkgs, calls, tree, args, return_code>>

\* sys.exit(main()), line 448: the return code of a run that completed, 1
\* after sys.exit(1) or an exception that nothing caught
ExitStatus == IF raised # "" THEN 1 ELSE return_code

\* main(), lines 390-396: the command line is parsed and from_pkgs has
\* built the graph of what is installed, or has raised, which ends the run
InitMain ==
    /\ \E n \in {0, 2} : Built(n, MainRequirements)
    /\ args \in MainArgs
    /\ pc = IF raised # "" THEN "done" ELSE "diagnostics"
    /\ return_code = 0

NextMain == DiagnosticsStep \/ ReverseStep \/ FilterStep \/ RenderStep

SpecMain == InitMain /\ [][NextMain]_vars

\* conflicting_deps or cyclic_deps finds something on the graph from_pkgs
\* built, before any reverse or filter
DiagnosticsFind ==
    /\ built # <<>>
    /\ \/ conflicting_deps(built[1], NoModules) # <<>>
       \/ cyclic_deps(built[1]) # <<>>

\* none of --json, --json-tree and --graph-output was given
TextFormat == ~args.json /\ ~args.json_tree /\ args.output_format = ""

\* the run came to its end without an exception or sys.exit
Completed == pc = "done" /\ raised = ""

\* C15 as stated: with warn mode "fail" the exit status of main is non-zero
\* exactly when conflicting_deps or cyclic_deps finds something on the
\* unfiltered, unreversed graph, whatever the output format; with "suppress"
\* and "silence" the diagnostics leave the return code 0.
C15_FailAnyFormat ==
    /\ (Completed /\ args.warn = "fail") => (ExitStatus # 0 <=> DiagnosticsFind)
    /\ (pc # "diagnostics" /\ args.warn \in {"suppress", "silence"})
          => return_code = 0

\* C15 amended: the diagnostics run for text output only; with warn mode
\* "fail" and text output the return code of main is 1 exactly when
\* conflicting_deps or cyclic_deps finds something on the unfiltered,
\* unreversed graph, and it is 0 with any other output format and with
\* "suppress" and "silence"; a run that completes exits with it, and a run
\* that an exception ends exits with a status that is not 0.
C15_FailTextOnly ==
    /\ pc # "diagnostics" =>
          return_code = IF TextFormat /\ args.warn = "fail" /\ DiagnosticsFind
                        THEN 1 ELSE 0
    /\ (Completed /\ args.warn = "fail")
          => (ExitStatus # 0 <=> (TextFormat /\ DiagnosticsFind))
    /\ (Completed /\ args.warn \in {"suppress", "silence"}) => ExitStatus = 0
    /\ (pc = "done" /\ raised # "") => ExitStatus # 0

\* a run with warn mode "fail" and text output, on an inventory with a
\* conflict, reversed and filtered its graph, rendered it and returned 1
C15_Witness ==
    /\ Completed
    /\ args.warn = "fail" /\ TextFormat
    /\ args.reverse /\ args.exclude # <<>>
    /\ DiagnosticsFind
    /\ conflicting_deps(built[1], NoModules) # <<>>
    /\ out.fn = "render_text"
    /\ ExitStatus = 1

====
